---- MODULE Spec2Model ----
(***************************************************************************)
(* Model of merger-cli's parser plugin subsystem                           *)
(* (src/merger/parsers/modules.py): the persisted "modules" mapping, the   *)
(* plugin file store, the in-process registry _PARSERS, and the operations *)
(* install_module, uninstall_module, load_parsers and get_parser.          *)
(*                                                                         *)
(* Python strings that the code inspects character by character (file      *)
(* names, extensions) are sequences of one-character strings.  Hashes,     *)
(* paths and names that the code only compares for equality are strings.   *)
(***************************************************************************)
EXTENDS Integers, Sequences, FiniteSets, TLC

VARIABLES config, files, _PARSERS, last, pc, read

vars == <<config, files, _PARSERS, last, pc, read>>

----------------------------------------------------------------------------
(* Bounds *)

\* longest file name handed to get_parser
MaxNameLen == 4

----------------------------------------------------------------------------
(* Strings *)

ToLower == ("A" :> "a" @@ "B" :> "b")

\* str.lower()
lower(s) == [i \in 1..Len(s) |-> IF s[i] \in DOMAIN ToLower THEN ToLower[s[i]] ELSE s[i]]

\* str.endswith(suffix)
endswith(s, suffix) ==
    /\ Len(suffix) <= Len(s)
    /\ SubSeq(s, Len(s) - Len(suffix) + 1, Len(s)) = suffix

RegexClass ==
    {"a","b","c","d","e","f","g","h","i","j","k","l","m","n","o","p","q","r",
     "s","t","u","v","w","x","y","z","0","1","2","3","4","5","6","7","8","9","."}

\* _EXTENSION_REGEX.fullmatch(extension): \.[a-z0-9.]+$ with re.IGNORECASE
_EXTENSION_REGEX(extension) ==
    /\ Len(extension) >= 2
    /\ extension[1] = "."
    /\ \A i \in 2..Len(extension) : lower(extension)[i] \in RegexClass

\* characters of the file names tried against the registry
Alphabet == {".", "A", "b"}

Filenames == UNION {[1..n -> Alphabet] : n \in 1..MaxNameLen}

----------------------------------------------------------------------------
(* Plugin artifacts: the python files a user can hand to install_module.   *)
(* exec: whether executing the file raises; all: the value of __all__      *)
(* (a sequence of names, or <<"#">> standing for "absent or not a list");  *)
(* attrs: the module attributes the names of __all__ are looked up in.     *)

NoAll == <<"#">>

Str(s) == [str |-> TRUE, s |-> s]

IterableOf(items) == [kind |-> "iterable", items |-> items, isParser |-> FALSE, name |-> ""]
ParserClass(n) == [kind |-> "class", items |-> {}, isParser |-> TRUE, name |-> n]

Plugin(h, exts, cls) ==
    [hash |-> h, exec |-> "ok", all |-> <<"EXTENSIONS", cls>>,
     attrs |-> ("EXTENSIONS" :> IterableOf({Str(e) : e \in exts}) @@ cls :> ParserClass(cls))]

Artifacts ==
    (  "pa.py"     :> Plugin("0a0a0a0a", {<<".", "A">>}, "PA")
    \* different bytes whose 8-character hash collides with that of pa.py
    @@ "pb.py"     :> Plugin("0a0a0a0a", {<<".", "b">>}, "PB")
    @@ "pmulti.py" :> Plugin("1b1b1b1b", {<<".", "b", ".", "A">>, <<".", "a">>}, "PMulti")
    @@ "pab.py"    :> Plugin("2c2c2c2c", {<<".", "A">>, <<".", "b">>}, "PAB")
    @@ "three.py"  :> [hash |-> "4e4e4e4e", exec |-> "ok",
                       all |-> <<"EXTENSIONS", "P", "Q">>,
                       attrs |-> ("EXTENSIONS" :> IterableOf({Str(<<".", "A">>)})
                                  @@ "P" :> ParserClass("P") @@ "Q" :> ParserClass("Q"))]
    @@ "twice.py"  :> [hash |-> "5f5f5f5f", exec |-> "ok",
                       all |-> <<"EXTENSIONS", "EXTENSIONS">>,
                       attrs |-> ("EXTENSIONS" :> IterableOf({Str(<<".", "b">>)}))]
    @@ "raises.py" :> [hash |-> "6a6a6a6a", exec |-> "raises",
                       all |-> NoAll, attrs |-> << >>]
    )

\* the files handed to install_module
ArtifactNames == DOMAIN Artifacts

\* hash_from_file(path, 8): first 8 hex characters of the digest of the bytes
hash_from_file(path) == Artifacts[path].hash

Hashes == {hash_from_file(a) : a \in ArtifactNames}

\* get_parsers_dir() / f"{file_hash}.py"
module_path(file_hash) == file_hash \o ".py"

StorePaths == {module_path(h) : h \in Hashes}

Absent == [kind |-> "absent", content |-> ""]
Directory == [kind |-> "dir", content |-> ""]
RegularFile(a) == [kind |-> "file", content |-> a]

----------------------------------------------------------------------------
(* Loading and validating a module *)

DefaultParser == [module |-> "merger.parsers.default_parser", name |-> "DefaultParser"]

NoModule == [name |-> "", content |-> ""]

\* module_from_path(path, name); file is what the path holds
module_from_path(file, name) ==
    IF file.kind = "absent" THEN [status |-> "FileNotFoundError", module |-> NoModule]
    ELSE IF file.kind # "file" THEN [status |-> "IsADirectoryError", module |-> NoModule]
    ELSE IF Artifacts[file.content].exec # "ok" THEN [status |-> "ImportError", module |-> NoModule]
    ELSE [status |-> "ok", module |-> [name |-> name, content |-> file.content]]

Rejected(status) == [status |-> status, extensions |-> {}, parser_cls |-> DefaultParser]

\* keys of the dict built from __all__, in insertion order without repeats
RECURSIVE DictKeys(_)
DictKeys(names) ==
    IF names = << >> THEN << >>
    ELSE LET front == DictKeys(SubSeq(names, 1, Len(names) - 1))
             n == names[Len(names)]
         IN IF \E i \in 1..Len(front) : front[i] = n THEN front ELSE Append(front, n)

get_extensions_and_parser_cls(module) ==
    LET art == Artifacts[module.content]
        module_all == art.all
    IN
    IF module_all = NoAll THEN Rejected("InvalidModule")
    ELSE IF Len(module_all) # 2 THEN Rejected("InvalidModule")
    ELSE IF \E i \in 1..Len(module_all) : module_all[i] \notin DOMAIN art.attrs
         THEN Rejected("InvalidModule")
    ELSE IF \A i \in 1..Len(module_all) : module_all[i] # "EXTENSIONS"
         THEN Rejected("InvalidModule")
    ELSE LET extensions == art.attrs["EXTENSIONS"]
             others == SelectSeq(DictKeys(module_all), LAMBDA k : k # "EXTENSIONS")
         IN
         IF extensions.kind # "iterable" THEN Rejected("InvalidModule")
         ELSE IF \E x \in extensions.items : ~x.str THEN Rejected("InvalidModule")
         ELSE IF \E x \in extensions.items : ~_EXTENSION_REGEX(x.s) THEN Rejected("InvalidModule")
         ELSE IF others = << >> THEN Rejected("StopIteration")
         ELSE LET parser_cls == art.attrs[others[1]]
              IN IF parser_cls.kind # "class" \/ ~parser_cls.isParser
                 THEN Rejected("InvalidModule")
                 ELSE [status |-> "ok",
                       extensions |-> {x.s : x \in extensions.items},
                       parser_cls |-> [module |-> module.name, name |-> parser_cls.name]]

----------------------------------------------------------------------------
(* The persisted config: the "modules" mapping, a dict kept in insertion   *)
(* order, is a sequence of entries keyed by id.  The extensions list of an *)
(* entry is list(frozenset): its order is arbitrary and the code only ever *)
(* reads it as a set, so it is kept as a set.                              *)

Keys(modules) == {modules[i].id : i \in 1..Len(modules)}

Entry(modules, k) == modules[CHOOSE i \in 1..Len(modules) : modules[i].id = k]

\* modules[k] = entry
DictSet(modules, k, entry) ==
    IF k \in Keys(modules)
    THEN [i \in 1..Len(modules) |-> IF modules[i].id = k THEN entry ELSE modules[i]]
    ELSE Append(modules, entry)

\* the entry left in the mapping
DictDel_nothing(modules, k) == modules

\* del modules[k]
DictDel(modules, k) == SelectSeq(modules, LAMBDA m : m.id # k)

\* the copy left out
copy_nothing(store, src, dst) == store

\* shutil.copy(src, dst): a dst that is a directory receives the file inside it
copy(store, src, dst) ==
    IF store[dst].kind = "dir" THEN store ELSE [store EXCEPT ![dst] = RegularFile(src)]

\* Path.unlink()
unlink(store, p) == [store EXCEPT ![p] = Absent]

Outcome(result, modules, store) == [result |-> result, modules |-> modules, files |-> store]

\* the union of the extensions of the installed entries
installed_extensions(modules) == UNION {modules[i].extensions : i \in 1..Len(modules)}

\* the key looked up is the file name of the stored copy instead of the hash
is_installed_by_filename(modules, file_hash) == module_path(file_hash) \in Keys(modules)

\* file_hash in modules
is_installed(modules, file_hash) == file_hash \in Keys(modules)

\* only the first installed entry is compared
overlapping_first(extensions, modules) ==
    IF modules = << >> THEN {} ELSE extensions \cap modules[1].extensions

\* extensions & installed_extensions
overlapping(extensions, modules) == extensions \cap installed_extensions(modules)

\* install_module(path): modules and store are the persisted state it starts from;
\* the result carries the persisted state it leaves and the exception raised
install_module(modules, store, path) ==
    LET file_hash == hash_from_file(path)
        loaded == module_from_path(RegularFile(path), file_hash)
    IN
    IF is_installed(modules, file_hash) THEN Outcome("ModuleAlreadyInstalled", modules, store)
    ELSE IF loaded.status # "ok" THEN Outcome(loaded.status, modules, store)
    ELSE LET checked == get_extensions_and_parser_cls(loaded.module)
         IN
         IF checked.status # "ok" THEN Outcome(checked.status, modules, store)
         ELSE IF overlapping(checked.extensions, modules) # {} THEN Outcome("ModuleAlreadyInstalled", modules, store)
         ELSE Outcome("ok",
                      DictSet(modules, file_hash,
                              [id |-> file_hash,
                               extensions |-> checked.extensions,
                               path |-> module_path(file_hash),
                               original_name |-> path]),
                      copy(store, path, module_path(file_hash)))

\* the check for a path that is no regular file left out
blocked_never(file) == FALSE

\* module_path.exists() and not module_path.is_file()
blocked(file) == file.kind # "absent" /\ file.kind # "file"

\* the loop of uninstall_module("*") from entry i on: the store it leaves and
\* whether it ran to the end
RECURSIVE unlink_all(_, _, _)
unlink_all(modules, store, i) ==
    IF i > Len(modules) THEN [raised |-> FALSE, files |-> store]
    ELSE LET p == modules[i].path
         IN IF store[p].kind = "absent" THEN unlink_all(modules, store, i + 1)
            ELSE IF blocked(store[p]) THEN [raised |-> TRUE, files |-> store]
            ELSE unlink_all(modules, unlink(store, p), i + 1)

\* uninstall_module(module_id)
uninstall_module(modules, store, module_id) ==
    IF module_id = "*"
    THEN LET swept == unlink_all(modules, store, 1)
         IN IF swept.raised THEN Outcome("IsADirectoryError", modules, swept.files)
            ELSE Outcome("ok", << >>, swept.files)
    ELSE IF module_id \notin Keys(modules) THEN Outcome("KeyError", modules, store)
    ELSE LET p == Entry(modules, module_id).path
         IN IF store[p].kind = "absent"
            THEN Outcome("ok", DictDel(modules, module_id), store)
            ELSE IF blocked(store[p])
            THEN Outcome("IsADirectoryError", modules, store)
            ELSE Outcome("ok", DictDel(modules, module_id), unlink(store, p))

----------------------------------------------------------------------------
(* The registry: a dict extension -> parser class in insertion order, a    *)
(* sequence of bindings.                                                   *)

Binding(extension, parser) == [extension |-> extension, parser |-> parser]

Registered(parsers) == {parsers[i].extension : i \in 1..Len(parsers)}

\* the orders in which a frozenset can be iterated
Orders(S) == {o \in [1..Cardinality(S) -> S] : \A i, j \in 1..Cardinality(S) : o[i] = o[j] => i = j}

Loaded(status, parsers, detail) == [status |-> status, parsers |-> parsers, detail |-> detail]

\* the inner loop of load_parsers over one module's extensions, taken in order
RECURSIVE register(_, _, _)
register(parsers, order, parser_cls) ==
    IF order = << >> THEN Loaded("ok", parsers, << >>)
    ELSE IF order[1] \in Registered(parsers) THEN Loaded("InvalidModule", parsers, order[1])
    ELSE register(Append(parsers, Binding(order[1], parser_cls)), Tail(order), parser_cls)

\* load_parsers() from entry i on with the bindings made so far: the set of
\* results the iteration orders of the extension sets allow
RECURSIVE load_from(_, _, _, _)
load_from(modules, store, i, parsers) ==
    IF i > Len(modules) THEN {Loaded("ok", parsers, << >>)}
    ELSE LET loaded == module_from_path(store[modules[i].path], modules[i].id)
         IN IF loaded.status # "ok" THEN {Loaded(loaded.status, parsers, << >>)}
            ELSE LET checked == get_extensions_and_parser_cls(loaded.module)
                 IN IF checked.status # "ok" THEN {Loaded(checked.status, parsers, << >>)}
                    ELSE UNION {
                           LET r == register(parsers, o, checked.parser_cls)
                           IN IF r.status # "ok" THEN {r}
                              ELSE load_from(modules, store, i + 1, r.parsers)
                           : o \in Orders(checked.extensions)}

load_parsers(modules, store) == load_from(modules, store, 1, << >>)

\* the last matching binding returned instead of the first
get_parser_last(parsers, filename) ==
    LET hits == {i \in 1..Len(parsers) :
                   endswith(lower(filename), lower(parsers[i].extension))}
    IN IF hits = {} THEN DefaultParser
       ELSE parsers[CHOOSE i \in hits : \A j \in hits : i >= j].parser

\* the extension looked for anywhere in the name instead of at its end
get_parser_contains(parsers, filename) ==
    LET hits == {i \in 1..Len(parsers) :
                   \E k \in 1..Len(filename) :
                       endswith(lower(SubSeq(filename, 1, k)), lower(parsers[i].extension))}
    IN IF hits = {} THEN DefaultParser
       ELSE parsers[CHOOSE i \in hits : \A j \in hits : i <= j].parser

\* get_parser(filename) against the registry parsers
get_parser(parsers, filename) ==
    LET hits == {i \in 1..Len(parsers) :
                   endswith(lower(filename), lower(parsers[i].extension))}
    IN IF hits = {} THEN DefaultParser
       ELSE parsers[CHOOSE i \in hits : \A j \in hits : i <= j].parser

----------------------------------------------------------------------------
(* State.  config: the persisted modules mapping; files: what each path of *)
(* the plugin store holds; _PARSERS: the registry the running process      *)
(* built when modules.py was imported (or the exception that import        *)
(* raised); last: the latest call and its result; pc: an install caught    *)
(* between its copy and its write; read: the latest call of the default    *)
(* reader.                                                                 *)

NoName == << >>

Call(op, path, id, filename, result, parser) ==
    [op |-> op, path |-> path, id |-> id, filename |-> filename,
     result |-> result, parser |-> parser]

Idle == [at |-> "idle", modules |-> << >>]

\* a MIME type "major/minor" is the pair of its two parts
NoMime == <<"", "">>

NoProbe == [outcome |-> "none", mime |-> NoMime]

\* read: the latest call of the default reader, its input, what the probes
\* it consulted answered, and what it returned or raised
Reading(op, chunk, probe, encoding, confidence, result, log, text) ==
    [op |-> op, chunk |-> chunk, probe |-> probe, encoding |-> encoding,
     confidence |-> confidence, result |-> result, log |-> log, text |-> text]

NoRead == Reading("none", << >>, NoProbe, "", 0, "", {}, << >>)

Init ==
    /\ config = << >>
    /\ files = [p \in StorePaths |-> Absent]
    /\ _PARSERS = Loaded("ok", << >>, << >>)
    /\ last = Call("start", "", "", NoName, "ok", DefaultParser)
    /\ pc = Idle
    /\ read = NoRead

\* the functions of modules.py are reachable only when its import, which
\* runs load_parsers, did not raise
Imported == _PARSERS.status = "ok"

Install(path) ==
    /\ Imported
    /\ pc = Idle
    /\ LET r == install_module(config, files, path)
       IN /\ config' = r.modules
          /\ files' = r.files
          /\ last' = Call("install", path, hash_from_file(path), NoName, r.result, DefaultParser)
    /\ UNCHANGED <<_PARSERS, pc, read>>

Uninstall(module_id) ==
    /\ Imported
    /\ pc = Idle
    /\ LET r == uninstall_module(config, files, module_id)
       IN /\ config' = r.modules
          /\ files' = r.files
          /\ last' = Call("uninstall", "", module_id, NoName, r.result, DefaultParser)
    /\ UNCHANGED <<_PARSERS, pc, read>>

\* a new process imports modules.py: _PARSERS = load_parsers()
Restart ==
    /\ pc = Idle
    /\ \E loaded \in load_parsers(config, files) :
         /\ _PARSERS' = loaded
         /\ last' = Call("restart", "", "", NoName, loaded.status, DefaultParser)
    /\ UNCHANGED <<config, files, pc, read>>

\* get_parser leaves the state alone, so a lookup that follows a lookup
\* reaches nothing new: lookups are taken after the other operations
Resolve(filename) ==
    /\ Imported
    /\ pc = Idle
    /\ last.op # "resolve"
    /\ last' = Call("resolve", "", "", filename, "ok", get_parser(_PARSERS.parsers, filename))
    /\ UNCHANGED <<config, files, _PARSERS, pc, read>>

ModuleIds == Hashes \cup {"*"}

Next ==
    \/ \E path \in ArtifactNames : Install(path)
    \/ \E module_id \in ModuleIds : Uninstall(module_id)
    \/ Restart
    \/ \E filename \in Filenames : Resolve(filename)

Spec == Init /\ [][Next]_vars

----------------------------------------------------------------------------
(* The plugin store is a directory of the file system: other programs can  *)
(* replace, remove or overwrite the file of an installed entry.            *)

TamperContents == {"three.py"}

InstalledPaths == {config[i].path : i \in 1..Len(config)}

EnvMkdir(p) ==
    /\ pc = Idle
    /\ p \in InstalledPaths
    /\ files[p].kind = "file"
    /\ files' = [files EXCEPT ![p] = Directory]
    /\ last' = Call("env", p, "", NoName, "ok", DefaultParser)
    /\ UNCHANGED <<config, _PARSERS, pc, read>>

EnvUnlink(p) ==
    /\ pc = Idle
    /\ p \in InstalledPaths
    /\ files[p].kind = "file"
    /\ files' = [files EXCEPT ![p] = Absent]
    /\ last' = Call("env", p, "", NoName, "ok", DefaultParser)
    /\ UNCHANGED <<config, _PARSERS, pc, read>>

EnvWrite(p, a) ==
    /\ pc = Idle
    /\ p \in InstalledPaths
    /\ files[p].kind = "file"
    /\ files' = [files EXCEPT ![p] = RegularFile(a)]
    /\ last' = Call("env", p, "", NoName, "ok", DefaultParser)
    /\ UNCHANGED <<config, _PARSERS, pc, read>>

NextEnv ==
    \/ \E path \in ArtifactNames : Install(path)
    \/ \E module_id \in ModuleIds : Uninstall(module_id)
    \/ Restart
    \/ \E p \in StorePaths : EnvMkdir(p)
    \/ \E p \in StorePaths : EnvUnlink(p)
    \/ \E p \in StorePaths, a \in TamperContents : EnvWrite(p, a)

SpecEnv == Init /\ [][NextEnv]_vars

----------------------------------------------------------------------------
(* install_module step by step, with the process killed between the copy   *)
(* into the store (line 143) and the write of the config (line 151).        *)

InstallCopy(path) ==
    /\ Imported
    /\ pc = Idle
    /\ LET r == install_module(config, files, path)
       IN /\ r.result = "ok"
          /\ files' = r.files
          /\ pc' = [at |-> "copied", modules |-> r.modules]
          /\ last' = Call("install", path, hash_from_file(path), NoName, "running", DefaultParser)
    /\ UNCHANGED <<config, _PARSERS, read>>

InstallWrite ==
    /\ pc.at = "copied"
    /\ config' = pc.modules
    /\ pc' = Idle
    /\ last' = [last EXCEPT !.result = "ok"]
    /\ UNCHANGED <<files, _PARSERS, read>>

\* the process dies; the next one imports modules.py afresh
Crash ==
    /\ pc.at = "copied"
    /\ pc' = Idle
    /\ \E loaded \in load_parsers(config, files) :
         /\ _PARSERS' = loaded
         /\ last' = Call("crash", last.path, last.id, NoName, loaded.status, DefaultParser)
    /\ UNCHANGED <<config, files, read>>

NextCrash ==
    \/ \E path \in ArtifactNames : InstallCopy(path)
    \/ InstallWrite
    \/ Crash
    \/ \E path \in ArtifactNames : Install(path)
    \/ \E module_id \in ModuleIds : Uninstall(module_id)
    \/ Restart

SpecCrash == Init /\ [][NextCrash]_vars

----------------------------------------------------------------------------
(* The default reader (v2/readers/default_reader.py).  A chunk is a        *)
(* sequence of bytes 0..255, a decoded text a sequence of code points.     *)
(* The MIME probe and the charset detector are libraries outside the       *)
(* repository: what they answer for a chunk is a choice among the answers  *)
(* they can give.                                                          *)

MaxChunkLen == 2

MaxRunLen == 10

\* the bytes on both sides of every boundary the reader compares with, and
\* the two bytes of a UTF-8 encoded U+00E9
Bytes == {0, 8, 9, 13, 14, 31, 32, 195, 169}

\* k bytes c followed by blanks up to length n
Run(c, k, n) == [i \in 1..n |-> IF i <= k THEN c ELSE 32]

\* ESC $ ) A, the escape sequence by which ISO-2022-CN designates GB 2312
ISO2022CN_DESIGNATION == <<27, 36, 41, 65>>

Chunks ==
    UNION {[1..n -> Bytes] : n \in 0..MaxChunkLen}
      \cup {Run(c, k, n) : c \in {0, 8}, k \in 0..MaxRunLen, n \in 1..MaxRunLen}
      \cup {ISO2022CN_DESIGNATION}

TEXT_CONFIDENCE_THRESHOLD == 80

MAX_BINARY_RATIO == 30

TEXTUAL_APPLICATION_MIMES ==
    {<<"application", "json">>, <<"application", "xml">>,
     <<"application", "javascript">>, <<"application", "x-yaml">>}

\* what filetype.guess can do with a chunk: return no kind, return a kind
\* with its MIME type, or raise
Probes ==
    {NoProbe, [outcome |-> "raises", mime |-> NoMime]}
      \cup {[outcome |-> "kind", mime |-> m] :
              m \in {<<"text", "plain">>, <<"application", "json">>, <<"application", "pdf">>}}

\* guess_mime_type(file_chunk), probe being what filetype.guess did
guess_mime_type(probe) == IF probe.outcome = "kind" THEN probe.mime ELSE NoMime

\* the "encoding" of a detection result when the detector found none
NoEncoding == ""

\* charset names chardet reports for chunks without escape sequences
DetectorNames == {"ascii", "utf-8", "ISO-8859-1"}

\* confidences in hundredths
Confidences == {0, 79, 80}

\* the results chardet.detect can return for such a chunk
Detections ==
    [encoding : DetectorNames \cup {NoEncoding}, confidence : Confidences]

\* guess_encoding(file_chunk), result being what chardet.detect returned
guess_encoding(result) ==
    [encoding |-> IF result.encoding = NoEncoding THEN "utf-8" ELSE result.encoding,
     confidence |-> result.confidence]

\* the names the interpreter has a codec for; it has none for ISO-2022-CN
Codecs == {"ascii", "utf-8", "ISO-8859-1"}

Decoded(status, text) == [status |-> status, text |-> text]

\* U+FFFD
REPLACEMENT == 65533

\* the length of the UTF-8 sequence a byte starts, 0 when it starts none
Utf8Need(b) ==
    IF b < 128 THEN 1
    ELSE IF b \in 194..223 THEN 2
    ELSE IF b \in 224..239 THEN 3
    ELSE IF b \in 240..244 THEN 4
    ELSE 0

\* the second bytes a lead byte admits
Utf8Second(lead) ==
    IF lead = 224 THEN 160..191
    ELSE IF lead = 237 THEN 128..159
    ELSE IF lead = 240 THEN 144..191
    ELSE IF lead = 244 THEN 128..143
    ELSE 128..191

\* how many bytes from position i on are a prefix of a well-formed sequence
Utf8Prefix(bytes, i) ==
    LET need == Utf8Need(bytes[i])
        ok(k) == /\ k <= need
                 /\ i + k - 1 <= Len(bytes)
                 /\ \A j \in 2..k :
                      bytes[i + j - 1] \in (IF j = 2 THEN Utf8Second(bytes[i]) ELSE 128..191)
    IN IF need = 0 THEN 0
       ELSE CHOOSE k \in 1..need : ok(k) /\ (k = need \/ ~ok(k + 1))

\* the code point of the well-formed sequence of n bytes at position i
Utf8Point(bytes, i, n) ==
    IF n = 1 THEN bytes[i]
    ELSE IF n = 2 THEN (bytes[i] - 192) * 64 + (bytes[i + 1] - 128)
    ELSE IF n = 3 THEN (bytes[i] - 224) * 4096 + (bytes[i + 1] - 128) * 64 + (bytes[i + 2] - 128)
    ELSE (bytes[i] - 240) * 262144 + (bytes[i + 1] - 128) * 4096
           + (bytes[i + 2] - 128) * 64 + (bytes[i + 3] - 128)

\* the UTF-8 decoder from position i on, text being what it has produced
RECURSIVE utf8_decode(_, _, _, _)
utf8_decode(bytes, i, errors, text) ==
    IF i > Len(bytes) THEN Decoded("ok", text)
    ELSE LET n == Utf8Prefix(bytes, i)
         IN IF n > 0 /\ n = Utf8Need(bytes[i])
            THEN utf8_decode(bytes, i + n, errors, Append(text, Utf8Point(bytes, i, n)))
            ELSE IF errors = "replace"
            THEN utf8_decode(bytes, i + (IF n = 0 THEN 1 ELSE n), errors,
                             Append(text, REPLACEMENT))
            ELSE Decoded("UnicodeDecodeError", << >>)

\* bytes.decode(encoding, errors)
decode(bytes, encoding, errors) ==
    IF encoding \notin Codecs THEN Decoded("LookupError", << >>)
    ELSE IF encoding = "utf-8" THEN utf8_decode(bytes, 1, errors, << >>)
    ELSE IF encoding = "ascii"
    THEN IF \E i \in 1..Len(bytes) : bytes[i] >= 128
         THEN IF errors = "replace"
              THEN Decoded("ok", [i \in 1..Len(bytes) |->
                                    IF bytes[i] >= 128 THEN REPLACEMENT ELSE bytes[i]])
              ELSE Decoded("UnicodeDecodeError", << >>)
         ELSE Decoded("ok", bytes)
    ELSE Decoded("ok", bytes)

\* the count of file_chunk's bytes below 9 or between 13 and 32
RECURSIVE non_printable(_)
non_printable(file_chunk) ==
    IF file_chunk = << >> THEN 0
    ELSE (IF Head(file_chunk) < 9 \/ (13 < Head(file_chunk) /\ Head(file_chunk) < 32) THEN 1 ELSE 0)
           + non_printable(Tail(file_chunk))

max(a, b) == IF a >= b THEN a ELSE b

\* the NUL test left out
looks_binary_without_nul(file_chunk) ==
    100 * non_printable(file_chunk) > MAX_BINARY_RATIO * max(Len(file_chunk), 1)

\* at least the ratio instead of more than the ratio
looks_binary_at_least(file_chunk) ==
    \/ \E i \in 1..Len(file_chunk) : file_chunk[i] = 0
    \/ 100 * non_printable(file_chunk) >= MAX_BINARY_RATIO * max(Len(file_chunk), 1)

\* looks_binary(file_chunk); the quotient compared with 0.30 in hundredths
looks_binary(file_chunk) ==
    \/ \E i \in 1..Len(file_chunk) : file_chunk[i] = 0
    \/ 100 * non_printable(file_chunk) > MAX_BINARY_RATIO * max(Len(file_chunk), 1)

\* part occurs in chunk
Holds(chunk, part) ==
    \E k \in 0..(Len(chunk) - Len(part)) : SubSeq(chunk, k + 1, k + Len(part)) = part

\* the results chardet.detect can return for a chunk: nothing is detected
\* in no bytes, and the escape sequence of ISO-2022-CN settles the charset
detect(file_chunk) ==
    IF file_chunk = << >> THEN {[encoding |-> NoEncoding, confidence |-> 0]}
    ELSE IF Holds(file_chunk, ISO2022CN_DESIGNATION)
    THEN {[encoding |-> "ISO-2022-CN", confidence |-> 99]}
    ELSE Detections

\* validate(file_chunk) with a logger, probe and result being what the two
\* libraries answered; the detector's answer is kept only when it was asked
validate(file_chunk, probe, result) ==
    LET mime_type == guess_mime_type(probe)
        is_text_mime == mime_type[1] = "text" \/ mime_type \in TEXTUAL_APPLICATION_MIMES
        guessed == guess_encoding(result)
        low == IF guessed.confidence < TEXT_CONFIDENCE_THRESHOLD
               THEN {"Low encoding confidence"} ELSE {}
        decoded == decode(file_chunk, guessed.encoding, "strict")
    IN
    IF mime_type # NoMime /\ ~is_text_mime
    THEN Reading("validate", file_chunk, probe, "", 0, "False", {"Rejected by MIME type"}, << >>)
    ELSE IF looks_binary(file_chunk)
    THEN Reading("validate", file_chunk, probe, "", 0, "False", {"Binary signature detected"}, << >>)
    ELSE Reading("validate", file_chunk, probe, guessed.encoding, guessed.confidence,
                 IF decoded.status = "ok" THEN "True"
                 ELSE IF decoded.status = "UnicodeDecodeError" THEN "False"
                 ELSE decoded.status,
                 low, << >>)

\* the size of the sample get_content hands to the detector
SAMPLE == 1024

\* file_bytes[:n]
Slice(file_bytes, n) == SubSeq(file_bytes, 1, IF Len(file_bytes) < n THEN Len(file_bytes) ELSE n)

\* get_content(file_bytes) with a logger, result being what chardet.detect
\* returned for the sample
get_content(file_bytes, result) ==
    LET guessed == guess_encoding(result)
        decoded == decode(file_bytes, guessed.encoding, "strict")
    IN
    IF decoded.status = "ok"
    THEN Reading("get_content", file_bytes, NoProbe, guessed.encoding, guessed.confidence,
                 "ok", {}, decoded.text)
    ELSE IF decoded.status = "UnicodeDecodeError"
    THEN Reading("get_content", file_bytes, NoProbe, guessed.encoding, guessed.confidence,
                 "ok", {"Decoding failed"}, decode(file_bytes, "utf-8", "replace").text)
    ELSE Reading("get_content", file_bytes, NoProbe, guessed.encoding, guessed.confidence,
                 decoded.status, {}, << >>)

\* a chunk handed to the reader
Input(file_chunk) == Reading("input", file_chunk, NoProbe, "", 0, "", {}, << >>)

InitReader ==
    /\ config = << >>
    /\ files = [p \in StorePaths |-> Absent]
    /\ _PARSERS = Loaded("ok", << >>, << >>)
    /\ last = Call("start", "", "", NoName, "ok", DefaultParser)
    /\ pc = Idle
    /\ read \in {Input(file_chunk) : file_chunk \in Chunks}

Validate ==
    /\ read.op = "input"
    /\ \E probe \in Probes, result \in detect(read.chunk) :
         read' = validate(read.chunk, probe, result)
    /\ UNCHANGED <<config, files, _PARSERS, last, pc>>

GetContent ==
    /\ read.op = "input"
    /\ \E result \in detect(Slice(read.chunk, SAMPLE)) :
         read' = get_content(read.chunk, result)
    /\ UNCHANGED <<config, files, _PARSERS, last, pc>>

NextReader ==
    \/ Validate
    \/ GetContent

SpecReader == InitReader /\ [][NextReader]_vars

----------------------------------------------------------------------------
(* Vocabulary of the properties, stated without the operators above.       *)

CasePairs == {{"a", "A"}, {"b", "B"}}

SameLetter(c, d) == c = d \/ {c, d} \in CasePairs

\* e is a suffix of f up to the case of letters
IsSuffixCI(e, f) ==
    \E k \in 0..Len(f) :
        /\ Len(e) = Len(f) - k
        /\ \A i \in 1..Len(e) : SameLetter(e[i], f[k + i])

\* f ends in e, letter for letter
EndsIn(f, e) == \E stem \in Filenames \cup {<< >>} : f = stem \o e

\* the suffixes of f that start at one of its dots
DotSuffixes(f) == {SubSeq(f, k, Len(f)) : k \in {i \in 1..Len(f) : f[i] = "."}}

Dots(s) == Cardinality({i \in 1..Len(s) : s[i] = "."})

\* a plugin as section 4.2 of the specification describes it
Conforms(a) ==
    LET art == Artifacts[a]
    IN /\ art.exec = "ok"
       /\ art.all # NoAll
       /\ Len(art.all) = 2
       /\ \E i, j \in 1..2 :
            /\ art.all[i] = "EXTENSIONS"
            /\ art.all[j] # "EXTENSIONS"
            /\ {art.all[i], art.all[j]} \subseteq DOMAIN art.attrs
            /\ art.attrs[art.all[i]].kind = "iterable"
            /\ \A x \in art.attrs[art.all[i]].items : x.str /\ _EXTENSION_REGEX(x.s)
            /\ art.attrs[art.all[j]].kind = "class"
            /\ art.attrs[art.all[j]].isParser

DeclaredExtensions(a) == {x.s : x \in Artifacts[a].attrs["EXTENSIONS"].items}

\* the parser class of plugin a once loaded as module m
DeclaredParser(a, m) ==
    [module |-> m,
     name |-> Artifacts[a].all[CHOOSE j \in 1..2 : Artifacts[a].all[j] # "EXTENSIONS"]]

\* the entries of the config one of whose extensions f ends in
Claimants(modules, f) ==
    {i \in 1..Len(modules) : \E e \in modules[i].extensions : IsSuffixCI(e, f)}

InstalledOk == last.op = "install" /\ last.result = "ok"

----------------------------------------------------------------------------
(* C1 as stated: once install(P) has returned, get_parser(f) yields P's    *)
(* parser class for every file name f that ends in one of P's extensions,  *)
(* in the running process and after load_parsers rebuilds the registry.    *)
C1_ResolvesToInstalled ==
    InstalledOk =>
        \A f \in Filenames :
            (\E e \in DeclaredExtensions(last.path) : EndsIn(f, e)) =>
                /\ get_parser(_PARSERS.parsers, f) = DeclaredParser(last.path, last.id)
                /\ \A rebuilt \in load_parsers(config, files) :
                     /\ rebuilt.status = "ok"
                     /\ get_parser(rebuilt.parsers, f) = DeclaredParser(last.path, last.id)

(* C1 as amended: once install(P) has returned, every rebuild of the        *)
(* registry by load_parsers succeeds, and in it get_parser(f) yields P's    *)
(* parser class for every f that ends in one of P's extensions, unless      *)
(* another installed entry has an extension that f also ends in, case       *)
(* aside.                                                                   *)
C1_ResolvesAfterRebuild ==
    InstalledOk =>
        \A rebuilt \in load_parsers(config, files) :
            /\ rebuilt.status = "ok"
            /\ \A f \in Filenames :
                 ( /\ \E e \in DeclaredExtensions(last.path) : EndsIn(f, e)
                   /\ \A i \in Claimants(config, f) : config[i].id = last.id )
                 => get_parser(rebuilt.parsers, f) = DeclaredParser(last.path, last.id)

\* P was installed next to another entry and some file name is P's alone
C1_Witness ==
    /\ InstalledOk
    /\ Len(config) >= 2
    /\ \E f \in Filenames :
         /\ \E e \in DeclaredExtensions(last.path) : EndsIn(f, e)
         /\ \A i \in Claimants(config, f) : config[i].id = last.id
         /\ \A rebuilt \in load_parsers(config, files) :
              get_parser(rebuilt.parsers, f) = DeclaredParser(last.path, last.id)

----------------------------------------------------------------------------
(* C2: install of a file whose hash is already a key of the persisted      *)
(* mapping raises ModuleAlreadyInstalled and leaves the config, the plugin *)
(* store and the registry as they were.                                    *)
C2_SameHashRejected ==
    [][ (last'.op = "install" /\ last'.id \in Keys(config)) =>
          /\ last'.result = "ModuleAlreadyInstalled"
          /\ config' = config
          /\ files' = files
          /\ _PARSERS' = _PARSERS ]_vars

\* the same file was handed to install a second time and refused
C2_Witness ==
    /\ last.op = "install"
    /\ last.result = "ModuleAlreadyInstalled"
    /\ last.id \in Keys(config)
    /\ Entry(config, last.id).original_name = last.path
    /\ files[module_path(last.id)] = RegularFile(last.path)

----------------------------------------------------------------------------
(* C3: install of a valid plugin one of whose extensions is already in an  *)
(* installed entry raises ModuleAlreadyInstalled; nothing is copied, no    *)
(* entry is added, the entries and their files stay as they were.          *)
C3_OverlapRejected ==
    [][ ( /\ last'.op = "install"
          /\ Conforms(last'.path)
          /\ \E i \in 1..Len(config) :
               DeclaredExtensions(last'.path) \cap config[i].extensions # {} ) =>
          /\ last'.result = "ModuleAlreadyInstalled"
          /\ config' = config
          /\ files' = files ]_vars

\* a plugin with a fresh hash was refused for an extension it shares
C3_Witness ==
    /\ last.op = "install"
    /\ last.result = "ModuleAlreadyInstalled"
    /\ last.id \notin Keys(config)
    /\ Conforms(last.path)
    /\ \E i \in 1..Len(config) :
         DeclaredExtensions(last.path) \cap config[i].extensions # {}
    /\ files[module_path(last.id)] = Absent

----------------------------------------------------------------------------
(* C4: whatever installs and uninstalls were made from the empty store, no *)
(* extension is in the lists of two entries, and load_parsers does not     *)
(* raise its "already registered" InvalidModule.                           *)
C4_ExtensionsDisjoint ==
    /\ \A i, j \in 1..Len(config) :
         i # j => config[i].extensions \cap config[j].extensions = {}
    /\ last.op = "restart" => _PARSERS.status # "InvalidModule"

\* two entries with three extensions between them, loaded into the registry
C4_Witness ==
    /\ Len(config) = 2
    /\ Cardinality(installed_extensions(config)) = 3
    /\ _PARSERS \in load_parsers(config, files)
    /\ Len(_PARSERS.parsers) = 3

----------------------------------------------------------------------------
(* C5: uninstall_module("*") leaves no entry in the persisted config and   *)
(* no entry's regular file in the store, also when the stored path of some *)
(* entry is not a regular file.                                            *)
C5_WildcardClearsAll ==
    [][ (last'.op = "uninstall" /\ last'.id = "*") =>
          /\ config' = << >>
          /\ \A i \in 1..Len(config) : files'[config[i].path].kind # "file" ]_vars

----------------------------------------------------------------------------
(* C6: uninstall_module(id) for one id: an id that is no key raises        *)
(* KeyError and changes nothing; a stored path that exists and is no       *)
(* regular file raises IsADirectoryError and the entry stays; otherwise    *)
(* the stored file is gone, that one entry is removed, and the other       *)
(* entries and files are as before.                                        *)
C6_UninstallOne ==
    [][ (last'.op = "uninstall" /\ last'.id # "*") =>
          IF last'.id \notin Keys(config)
          THEN /\ last'.result = "KeyError"
               /\ config' = config
               /\ files' = files
          ELSE LET p == Entry(config, last'.id).path
               IN IF files[p].kind = "dir"
                  THEN /\ last'.result = "IsADirectoryError"
                       /\ config' = config
                       /\ files' = files
                  ELSE /\ last'.result = "ok"
                       /\ files'[p].kind = "absent"
                       /\ \A q \in StorePaths \ {p} : files'[q] = files[q]
                       /\ Len(config') = Len(config) - 1
                       /\ Keys(config') = Keys(config) \ {last'.id}
                       /\ \A i, j \in 1..Len(config) :
                            (i < j /\ last'.id \notin {config[i].id, config[j].id}) =>
                                \E m, n \in 1..Len(config') :
                                    m < n /\ config'[m] = config[i] /\ config'[n] = config[j]
                       /\ \A k \in Keys(config') : Entry(config', k) = Entry(config, k) ]_vars

\* an entry whose stored path had become a directory was refused removal
\* while another entry sat next to it
C6_Witness ==
    /\ last.op = "uninstall"
    /\ last.id \in Keys(config)
    /\ last.result = "IsADirectoryError"
    /\ files[Entry(config, last.id).path].kind = "dir"
    /\ Len(config) >= 2

----------------------------------------------------------------------------
(* C7: whenever no install is running, also after the process was killed   *)
(* in the middle of one, every entry of the persisted config has its       *)
(* stored file and every file of the plugin store has its entry.           *)
C7_InstallAtomic ==
    pc = Idle =>
        /\ \A i \in 1..Len(config) : files[config[i].path].kind = "file"
        /\ \A p \in StorePaths : files[p].kind = "file" => p \in InstalledPaths

----------------------------------------------------------------------------
\* the registry of the running process is one load_parsers builds from the
\* persisted state as it is now
Current == _PARSERS \in load_parsers(config, files)

Resolved == last.op = "resolve" /\ Current

(* C8: in a registry that load_parsers built from the persisted entries,   *)
(* get_parser(f) matches f against the extensions as a suffix, case aside, *)
(* multi-part extensions included, and of several entries that match it    *)
(* returns the parser class of the one that comes first in the config.     *)
C8_FirstEntryWins ==
    (Resolved /\ Claimants(config, last.filename) # {}) =>
        LET first == CHOOSE i \in Claimants(config, last.filename) :
                         \A j \in Claimants(config, last.filename) : i <= j
        IN last.parser = DeclaredParser(config[first].original_name, config[first].id)

\* a lookup of a name that two entries claim, the earlier one through a
\* multi-part extension and through one written in another case, went to
\* the earlier entry
C8_Witness ==
    /\ Resolved
    /\ \E i, j \in Claimants(config, last.filename) :
         /\ i < j
         /\ \A k \in Claimants(config, last.filename) : i <= k
         /\ \E e \in config[i].extensions : Dots(e) >= 2 /\ EndsIn(last.filename, e)
         /\ \E e \in config[i].extensions :
              IsSuffixCI(e, last.filename) /\ ~EndsIn(last.filename, e)
         /\ last.parser = DeclaredParser(config[i].original_name, config[i].id)

----------------------------------------------------------------------------
\* no string of S is an installed extension, case aside
Unclaimed(S) ==
    \A d \in S : \A e \in installed_extensions(config) :
        ~(IsSuffixCI(d, e) /\ IsSuffixCI(e, d))

(* C9 as stated: get_parser returns DefaultParser for every file name with *)
(* no dot, for every one whose final extension is not installed, and for   *)
(* every one whose multi-part suffix is not itself an installed extension. *)
C9_DefaultForUnregistered ==
    LET f == last.filename
        final == {d \in DotSuffixes(f) : Dots(d) = 1}
        multi == {d \in DotSuffixes(f) : Dots(d) >= 2}
    IN ( /\ Resolved
         /\ \/ Dots(f) = 0
            \/ Unclaimed(final)
            \/ (multi # {} /\ Unclaimed(multi)) )
       => last.parser = DefaultParser

(* C9 as amended: get_parser returns DefaultParser for every file name     *)
(* with no dot and for every one none of whose dot suffixes, final or      *)
(* multi-part, is an installed extension, case aside.                      *)
C9_DefaultWhenNoSuffixClaimed ==
    ( /\ Resolved
      /\ \/ Dots(last.filename) = 0
         \/ Unclaimed(DotSuffixes(last.filename)) )
    => last.parser = DefaultParser

\* a lookup of a dotted name in a registry holding extensions fell through
\* to DefaultParser although an installed extension occurs inside the name
C9_Witness ==
    /\ Resolved
    /\ Len(_PARSERS.parsers) >= 1
    /\ Dots(last.filename) >= 1
    /\ \E e \in installed_extensions(config), k \in 1..Len(last.filename) :
         IsSuffixCI(e, SubSeq(last.filename, 1, k))
    /\ last.parser = DefaultParser

----------------------------------------------------------------------------
(* C10: load_parsers skips an entry whose stored file is no valid plugin   *)
(* and registers the others; it fails only when two valid stored plugins   *)
(* declare the same extension.                                             *)
C10_BadPluginIsolated ==
    LET stored(i) == files[config[i].path]
        valid == {i \in 1..Len(config) :
                     stored(i).kind = "file" /\ Conforms(stored(i).content)}
        conflict == \E i, j \in valid :
                        /\ i # j
                        /\ DeclaredExtensions(stored(i).content)
                              \cap DeclaredExtensions(stored(j).content) # {}
    IN (last.op = "restart" /\ \A i \in 1..Len(config) : stored(i).kind = "file") =>
          IF conflict THEN _PARSERS.status = "InvalidModule"
          ELSE /\ _PARSERS.status = "ok"
               /\ Registered(_PARSERS.parsers) =
                      UNION {DeclaredExtensions(stored(i).content) : i \in valid}

----------------------------------------------------------------------------
(* Vocabulary of the reader properties.                                    *)

HasNul(chunk) == \E i \in 1..Len(chunk) : chunk[i] = 0

\* the bytes of the chunk in [0, 9) or (13, 32)
Controls(chunk) == {i \in 1..Len(chunk) : chunk[i] \in (0..8) \cup (14..31)}

Validated == read.op = "validate"

----------------------------------------------------------------------------
(* C11: get_content never raises, whatever the bytes and whatever encoding *)
(* the guess returns: it returns the decode of the full bytes under the    *)
(* guessed encoding or, when that decode fails, the lossy UTF-8 decode     *)
(* with invalid sequences replaced.                                        *)
C11_GetContentNeverRaises ==
    read.op = "get_content" =>
        /\ read.result = "ok"
        /\ LET strict == decode(read.chunk, read.encoding, "strict")
           IN read.text = IF strict.status = "ok" THEN strict.text
                          ELSE decode(read.chunk, "utf-8", "replace").text

----------------------------------------------------------------------------
(* C12: validate returns true or false for every chunk and never raises;   *)
(* when the chunk cannot be decoded under the guessed encoding the result  *)
(* is false, and a low confidence of the guess alone rejects nothing.      *)
C12_ValidateNeverRaises ==
    Validated =>
        /\ read.result \in {"True", "False"}
        /\ (read.encoding # "" /\ decode(read.chunk, read.encoding, "strict").status # "ok")
              => read.result = "False"
        /\ (read.encoding # "" /\ decode(read.chunk, read.encoding, "strict").status = "ok")
              => read.result = "True"

----------------------------------------------------------------------------
(* C13: validate returns false for every chunk that contains a NUL byte,   *)
(* whether the MIME probe returns no type, a text type, an allow-listed    *)
(* application type or a type that is not allowed, or fails.               *)
C13_NulRejected == (Validated /\ HasNul(read.chunk)) => read.result = "False"

\* a chunk with one NUL among blanks, under the control ratio, was rejected
\* although the probe reported a text type
C13_Witness ==
    /\ Validated
    /\ HasNul(read.chunk)
    /\ 10 * Cardinality(Controls(read.chunk)) <= 3 * Len(read.chunk)
    /\ read.probe.outcome = "kind"
    /\ read.probe.mime[1] = "text"
    /\ read.result = "False"

----------------------------------------------------------------------------
(* C14: validate rejects every chunk more than 30% of whose bytes are      *)
(* below 9 or strictly between 13 and 32, also when the probe detects no   *)
(* type that is not allowed; a chunk with at most 30% such bytes and no    *)
(* NUL is not rejected by this heuristic, nor is the empty chunk.          *)
C14_ControlRatio ==
    Validated =>
        /\ 10 * Cardinality(Controls(read.chunk)) > 3 * Len(read.chunk)
              => read.result = "False"
        /\ (10 * Cardinality(Controls(read.chunk)) <= 3 * Len(read.chunk) /\ ~HasNul(read.chunk))
              => "Binary signature detected" \notin read.log
        /\ read.chunk = << >> => "Binary signature detected" \notin read.log

\* a chunk of ten bytes, exactly three of them control bytes and none NUL,
\* passed the heuristic and was accepted
C14_Witness ==
    /\ Validated
    /\ Len(read.chunk) = 10
    /\ Cardinality(Controls(read.chunk)) = 3
    /\ ~HasNul(read.chunk)
    /\ read.probe.outcome = "none"
    /\ read.result = "True"

----------------------------------------------------------------------------
(* C15: a loaded artifact is accepted as a plugin exactly when it declares *)
(* two public exports, EXTENSIONS bound to an iterable of strings matching *)
(* the extension regex and a class implementing Parser; every artifact     *)
(* that breaks one of these conditions, one whose two exports are both     *)
(* named EXTENSIONS included, is rejected with InvalidModule and no other  *)
(* error.  An install that got past its hash check and loaded the artifact *)
(* shows what get_extensions_and_parser_cls answered.                      *)
C15_AcceptedIffConforms ==
    (/\ last.op = "install"
     /\ Artifacts[last.path].exec = "ok"
     /\ last.result # "ModuleAlreadyInstalled") =>
        /\ last.result = "ok" <=> Conforms(last.path)
        /\ ~Conforms(last.path) => last.result = "InvalidModule"

----------------------------------------------------------------------------
(* C16: after any sequence of install and uninstall calls that ran to      *)
(* their return or raise, every record of the persisted config has a       *)
(* stored path that is a regular file, so load_parsers never fails with    *)
(* its "Installed module file does not exist" error.                       *)
C16_StoredFilesExist ==
    /\ \A i \in 1..Len(config) : files[config[i].path].kind = "file"
    /\ last.op = "restart" => _PARSERS.status # "FileNotFoundError"

\* one of several installed modules was uninstalled by its id: its file is
\* gone with its record and the records that stay have their files
C16_Witness ==
    /\ last.op = "uninstall"
    /\ last.result = "ok"
    /\ last.id # "*"
    /\ last.id \notin Keys(config)
    /\ files[module_path(last.id)].kind = "absent"
    /\ Len(config) >= 1
    /\ \A i \in 1..Len(config) : files[config[i].path].kind = "file"

====
